---- MODULE Spec2Model ----
(***************************************************************************)
(* Model of src/onedrive_migration.py: the OneDriveMigration engine (tree  *)
(* walk, per-file download/upload/verify, durable progress, retry loops,   *)
(* listing with token refresh, post-hoc verification) and main().          *)
(*                                                                         *)
(* Strings that the code slices, joins or prefix-tests (paths, names) are  *)
(* sequences of one-character strings, so that str.startswith, str.strip,  *)
(* str.split and os.path.dirname are computed as Python computes them.     *)
(***************************************************************************)
EXTENDS Integers, Sequences, FiniteSets, TLC

\* ------------------------------------------------------------------ bounds

\* Largest page the storage server returns for one children request.
MaxPageSize == 2
\* A transfer request fails on its first f attempts, f in 0..MaxFailures.
MaxFailures == 4
\* Number of times main() is started (first run, then restarts / re-runs).
MaxRuns == 2
\* Highest generation of a bearer token the identity provider hands out.
MaxTokenGen == 2
\* Longest folder path, in segments, that create_folder is called with alone.
MaxSegments == 3

\* ------------------------------------------------------------- Python str

SL == "/"

\* str.startswith
StartsWith(s, prefix) ==
    /\ Len(prefix) <= Len(s)
    /\ SubSeq(s, 1, Len(prefix)) = prefix

RECURSIVE LStrip(_)
LStrip(s) == IF s # <<>> /\ Head(s) = SL THEN LStrip(Tail(s)) ELSE s

RECURSIVE RStrip(_)
RStrip(s) ==
    IF s # <<>> /\ s[Len(s)] = SL THEN RStrip(SubSeq(s, 1, Len(s) - 1)) ELSE s

\* str.strip('/')
Strip(s) == RStrip(LStrip(s))

\* f"{a}/{b}" if a else b
Join(a, b) == IF a # <<>> THEN a \o <<SL>> \o b ELSE b

\* str.split('/'): the segments between slashes, empty ones included
RECURSIVE SplitFrom(_, _, _)
SplitFrom(s, i, cur) ==
    IF i > Len(s) THEN <<cur>>
    ELSE IF s[i] = SL THEN <<cur>> \o SplitFrom(s, i + 1, <<>>)
    ELSE SplitFrom(s, i + 1, Append(cur, s[i]))

Split(s) == SplitFrom(s, 1, <<>>)

\* index of the last '/' of s, 0 when there is none
RECURSIVE LastSlash(_, _)
LastSlash(s, i) ==
    IF i = 0 THEN 0 ELSE IF s[i] = SL THEN i ELSE LastSlash(s, i - 1)

\* os.path.dirname (posix): the head before the last slash, with trailing
\* slashes of the head removed unless the head is all slashes
Dirname(p) ==
    LET i == LastSlash(p, Len(p))
        head == SubSeq(p, 1, i)
    IN IF head # <<>> /\ RStrip(head) # <<>> THEN RStrip(head) ELSE head

\* elements of a sequence, and membership (Python's `x in list`)
Range(s) == {s[i] : i \in 1..Len(s)}

\* ---------------------------------------------------------- storage server

\* Item and folder names of the model's universe.
D  == <<"d">>
N  == <<"n">>
S  == <<"s">>
SX == <<"s", "x">>
X  == <<"X">>

\* The order in which the server returns the children of a folder.
NameOrder == <<D, N, S, SX, X>>

\* The source account's drive: file d (sha1 abc), folder s holding file n
\* (sha1 def), and file sx for which the server reports no sha1Hash.
\* It is not changed by the program (the code only reads from it).
SourceDrive ==
    [folders |-> {S},
     files   |-> (D :> "abc") @@ (Join(S, N) :> "def") @@ (SX :> "")]

EmptyDrive == [folders |-> {}, files |-> << >>]

IsFolder(drive, path) == path = <<>> \/ path \in drive.folders
IsFile(drive, path)   == path \in DOMAIN drive.files
ItemExists(drive, path) == IsFolder(drive, path) \/ IsFile(drive, path)

\* A drive item as the code uses it: its id, its name, its folder facet.
\* The id names the drive and the place of the item in it.
DriveItem(role, path, name, drive) ==
    [id     |-> <<role, Join(path, name)>>,
     name   |-> name,
     folder |-> Join(path, name) \in drive.folders]

\* All children of a folder, in server order.
Children(role, drive, path) ==
    LET present == SelectSeq(NameOrder,
                             LAMBDA n : /\ Join(path, n) \in drive.folders
                                              \cup DOMAIN drive.files)
    IN [i \in 1..Len(present) |-> DriveItem(role, path, present[i], drive)]

\* The server answers a children request with one page and, when children
\* remain, a continuation link (@odata.nextLink) to the next page.
FirstPage(children, size) ==
    SubSeq(children, 1, IF Len(children) < size THEN Len(children) ELSE size)

PageCount(children, size) ==
    IF Len(children) = 0 THEN 1 ELSE (Len(children) + size - 1) \div size

\* Every ancestor folder of a path (the path's own folder chain).
RECURSIVE Ancestors(_)
Ancestors(p) ==
    IF Dirname(p) = <<>> \/ Dirname(p) = p THEN {}
    ELSE {Dirname(p)} \cup Ancestors(Dirname(p))

\* ------------------------------------------------------------------ state

VARIABLES
    excluded_paths,     \* CONFIG['excluded_paths'], loaded once
    dest_folder,        \* self.dest_folder (already stripped of slashes)
    page_size,          \* the server's page size for children requests
    dst,                \* the destination account's drive
    progress_file,      \* migration_progress.json on disk: <<>> or <<record>>
    scratch,            \* files that exist under temp_downloads
    pc,                 \* where the process is
    run,                \* how many times main() has been started
    migrated_files,     \* self.migrated_files (the progress state in memory)
    source_token,       \* self.source_token
    dest_token,         \* self.dest_token
    arg_source_token,   \* the source_token argument of the running call
    arg_dest_token,     \* the dest_token argument of the running call
    issued,             \* tokens handed out after authentication (refreshes)
    stats,              \* self.stats (the counters)
    stack,              \* the migrate_folder call stack, innermost last
    cur,                \* the file _migrate_file is working on: <<>> or <<f>>
    vr,                 \* verify_complete_migration's locals
    outcome,            \* how main() ended: "", "ok", "error"
    success_logged,     \* main logged 'Migration completed and verified ...'
    \* history of the current run, for stating the properties
    loaded,             \* the progress state as _load_progress returned it
    resumed,            \* how the previous run ended: "", "finished", "killed"
    dl_calls,           \* item paths download_file was called for
    ul_calls,           \* item paths upload_file was called for
    xfer,               \* the last download_file / upload_file call: <<>> or <<r>>
    listing,            \* the last get_drive_items call: <<>> or <<r>>
    raised_in,          \* the stage in which an exception escaped, or ""
    mkdir,              \* the last create_folder call made on its own: <<>> or <<r>>
    skips               \* files this run skipped as already migrated

config_vars  == <<excluded_paths, dest_folder, page_size>>
disk_vars    == <<dst, progress_file, scratch>>
token_vars   == <<source_token, dest_token, arg_source_token, arg_dest_token,
                  issued>>
walk_vars    == <<stats, stack, cur>>
hist_vars    == <<loaded, resumed, dl_calls, ul_calls, xfer, listing,
                  raised_in>>
vars == <<config_vars, disk_vars, token_vars, walk_vars, hist_vars,
          pc, run, migrated_files, vr, outcome, success_logged, mkdir,
          skips>>

\* ----------------------------------------------------------- configuration

\* The exclusion lists the model draws CONFIG['excluded_paths'] from:
\* none, the source folder s, the folder name X.
ExclusionChoices == {<<>>, <<S>>, <<X>>}

\* What the user may answer to the destination folder prompt.
DestFolderChoices == {<<>>, X}

temp_dir == <<"t">>

\* should_exclude_path
AlwaysKeep(excluded, path) == FALSE

should_exclude_path(excluded, path) ==
    LET normalized_path == Strip(path)
    IN \E i \in 1..Len(excluded) :
          \/ StartsWith(normalized_path, excluded[i])
          \/ normalized_path = excluded[i]

\* ------------------------------------------------------------------ tokens

Token(role, gen) == [role |-> role, gen |-> gen]

\* The drive a request reaches: the drive of the account the bearer token
\* was issued for.
DriveOf(token, dstDrive) ==
    IF token.role = "source" THEN SourceDrive ELSE dstDrive

\* ---------------------------------------------------------- get_drive_items

\* What the server answers to the first request and to the request repeated
\* after a token refresh: 200, 401 (token expired), or err (any other error
\* status, or a network error). A path that is no folder gives 404 (err).
ListResponses == {<<"200">>, <<"err">>, <<"401", "200">>, <<"401", "err">>}

\* get_drive_items(access_token, path) with the responses resp.
\* tk = [source_token, dest_token, issued] are the token fields it may write.
get_drive_items(access_token, path, resp, tk, excluded, dstDrive, size) ==
    LET expired   == resp[1] = "401"
        is_source == access_token = tk.source_token
        new_token == Token(IF is_source THEN "source" ELSE "destination",
                           tk.issued + 1)
        tk1 == IF ~expired THEN tk
               ELSE [source_token |-> IF is_source THEN new_token
                                      ELSE tk.source_token,
                     dest_token   |-> IF is_source THEN tk.dest_token
                                      ELSE new_token,
                     issued       |-> tk.issued + 1]
        used     == IF expired THEN new_token ELSE access_token
        status   == IF expired THEN resp[2] ELSE resp[1]
        drive    == DriveOf(used, dstDrive)
        ok       == status = "200" /\ IsFolder(drive, path)
        children == IF ok THEN Children(used.role, drive, path) ELSE <<>>
        value    == FirstPage(children, size)
        kept     == SelectSeq(value,
                       LAMBDA item :
                          ~should_exclude_path(excluded, Join(path, item.name)))
    IN [items    |-> kept,
        tk       |-> tk1,
        ok       |-> ok,
        role     |-> used.role,
        sent     |-> IF expired THEN <<access_token, new_token>>
                     ELSE <<access_token>>,
        children |-> children,
        pages    |-> PageCount(children, size)]

\* ------------------------------------------------------------ create_folder

\* How the server treats one create_folder call: "ok" (it answers every
\* request and creates what is asked) or "exc" (the first request raises a
\* network error).
FolderOutcomes == {"ok", "exc"}

\* the prefixes current_path takes in create_folder's loop, left to right
RECURSIVE PrefixesFrom(_, _, _)
PrefixesFrom(segments, i, current_path) ==
    IF i > Len(segments) THEN <<>>
    ELSE IF segments[i] = <<>> THEN PrefixesFrom(segments, i + 1, current_path)
    ELSE LET next_path == Join(current_path, segments[i])
         IN <<next_path>> \o PrefixesFrom(segments, i + 1, next_path)

Prefixes(path) == PrefixesFrom(Split(path), 1, <<>>)

\* The loop of create_folder over the prefixes, from prefix number i on, with
\* the requests it sends. The existence check of a prefix whose number is in
\* faulty is answered with an error status (neither 200 nor 404); the other
\* checks are answered 200 or 404 as the drive stands, and a PUT creates the
\* folder.
RECURSIVE create_folder_loop(_, _, _, _)
create_folder_loop(drive, prefixes, i, faulty) ==
    IF i > Len(prefixes) THEN [drive |-> drive, requests |-> <<>>]
    ELSE LET current_path == prefixes[i]
             status == IF i \in faulty THEN "err"
                       ELSE IF ItemExists(drive, current_path) THEN "200"
                       ELSE "404"
             check  == [method |-> "GET", path |-> current_path,
                        status |-> status]
             create == [method |-> "PUT", path |-> current_path,
                        status |-> "201"]
             made   == IF status = "404"
                       THEN [drive EXCEPT !.folders = @ \cup {current_path}]
                       ELSE drive
             rest   == create_folder_loop(made, prefixes, i + 1, faulty)
         IN [drive    |-> rest.drive,
             requests |-> (IF status = "404" THEN <<check, create>>
                           ELSE <<check>>) \o rest.requests]

\* create_folder(access_token, path) on the drive the token reaches
create_folder(drive, path, how) ==
    LET prefixes == Prefixes(path)
        done     == create_folder_loop(drive, prefixes, 1, {})
    IN [drive  |-> IF how = "ok" THEN done.drive ELSE drive,
        raised |-> how = "exc" /\ prefixes # <<>>]

\* ------------------------------------------------- download_file/upload_file

download_max_retries == 3
upload_max_retries   == 3

RECURSIVE Pow2(_)
Pow2(n) == IF n = 0 THEN 1 ELSE 2 * Pow2(n - 1)

\* The retry loop of download_file and of upload_file; the request of
\* attempt number `attempt` (from 0) fails iff attempt < failures.
\* result: "value" (True / the response json), "failure" (False / None),
\* "fell_through" (the loop ended without a return).
RECURSIVE RetryFrom(_, _, _, _)
RetryFrom(attempt, max_retries, failures, sleeps) ==
    IF attempt >= max_retries
    THEN [result |-> "fell_through", attempts |-> attempt, sleeps |-> sleeps]
    ELSE IF attempt >= failures
    THEN [result |-> "value", attempts |-> attempt + 1, sleeps |-> sleeps]
    ELSE IF attempt = max_retries - 1
    THEN [result |-> "failure", attempts |-> attempt + 1, sleeps |-> sleeps]
    ELSE RetryFrom(attempt + 1, max_retries, failures,
                   Append(sleeps, Pow2(attempt)))

RetryOffByOne(max_retries, failures) ==
    RetryFrom(0, max_retries + 1, failures, <<>>)

RetryLoop(max_retries, failures) == RetryFrom(0, max_retries, failures, <<>>)

\* ------------------------------------------------------------ progress state

EmptyProgress == [migrated_files |-> <<>>, failed_files |-> <<>>]

\* _load_progress: the file's content when the file exists
IgnoreProgressFile(file) == EmptyProgress

load_progress(file) == IF file # <<>> THEN file[1] ELSE EmptyProgress

\* the skip test of _migrate_file
SkipIfFailed(progress, item_path) == item_path \in Range(progress.failed_files)

SkipIfRecorded(progress, item_path) ==
    item_path \in Range(progress.migrated_files)
                   \cup Range(progress.failed_files)

already_migrated(progress, item_path) ==
    item_path \in Range(progress.migrated_files)

\* the two appends of _migrate_file
AppendToBoth(progress, item_path) ==
    [migrated_files |-> Append(progress.migrated_files, item_path),
     failed_files   |-> Append(progress.failed_files, item_path)]

append_migrated(progress, item_path) ==
    [progress EXCEPT !.migrated_files = Append(@, item_path)]

AppendFailedAsMigrated(progress, item_path) ==
    [progress EXCEPT !.migrated_files = Append(@, item_path)]

append_failed(progress, item_path) ==
    [progress EXCEPT !.failed_files = Append(@, item_path)]

\* --------------------------------------------------------------------- Init

ZeroStats == [total_files |-> 0, total_folders |-> 0, migrated_files |-> 0]

NoVerification ==
    [source_items |-> <<>>, dest_items |-> <<>>, idx |-> 1,
     verified_files |-> 0, missing_files |-> <<>>, mismatched_files |-> <<>>,
     last |-> <<>>, result |-> <<>>]

\* what the progress file holds (an absent file holds nothing)
FileContent(file) == IF file # <<>> THEN file[1] ELSE EmptyProgress

\* The state after OneDriveMigration.__init__ and authenticate_accounts:
\* progress loaded, both tokens acquired, counters zero.
Constructed(file) ==
    /\ migrated_files = load_progress(file)
    /\ loaded = FileContent(file)
    /\ source_token = Token("source", 0)
    /\ dest_token = Token("destination", 0)
    /\ arg_source_token = Token("source", 0)
    /\ arg_dest_token = Token("destination", 0)
    /\ issued = 0
    /\ stats = ZeroStats
    /\ stack = <<>>
    /\ cur = <<>>
    /\ vr = NoVerification
    /\ outcome = ""
    /\ success_logged = FALSE
    /\ dl_calls = {}
    /\ ul_calls = {}
    /\ xfer = <<>>
    /\ listing = <<>>
    /\ raised_in = ""
    /\ mkdir = <<>>
    /\ skips = 0
    /\ pc = "main"

Init ==
    /\ excluded_paths \in ExclusionChoices
    /\ dest_folder \in DestFolderChoices
    /\ page_size \in 1..MaxPageSize
    /\ dst = EmptyDrive
    /\ progress_file = <<>>
    /\ scratch = {}
    /\ run = 1
    /\ resumed = ""
    /\ Constructed(<<>>)

\* ------------------------------------------------------------------ helpers

Frame(source_path, relative_path) ==
    [source_path |-> source_path, relative_path |-> relative_path,
     listed |-> FALSE, items |-> <<>>, idx |-> 1]

Top == stack[Len(stack)]
Pop == SubSeq(stack, 1, Len(stack) - 1)
SetTop(frame) == [stack EXCEPT ![Len(stack)] = frame]

TokenFields ==
    [source_token |-> source_token, dest_token |-> dest_token,
     issued |-> issued]

\* responses the model lets the server give: a 401, which makes the code ask
\* for a new token, only while tokens remain to hand out
ResponsesNow(n) ==
    {resp \in ListResponses : resp[1] = "401" => n < MaxTokenGen}

\* An exception that nothing catches on the way escapes to main (out of
\* _migrate_file through its finally clause): main's `except Exception` logs
\* the error and its `finally` purges temp_downloads.
Abort(stage) ==
    /\ pc' = "finished"
    /\ outcome' = "error"
    /\ raised_in' = stage
    /\ scratch' = {}
    /\ cur' = <<>>

\* main, lines 486-494: create the destination folder, call migrate_folder
MainStart ==
    /\ pc = "main"
    /\ \E how \in FolderOutcomes :
          LET made == IF dest_folder # <<>>
                      THEN create_folder(dst, dest_folder, how)
                      ELSE [drive |-> dst, raised |-> FALSE]
          IN /\ dest_folder = <<>> => how = "ok"
             /\ dst' = made.drive
             /\ IF made.raised
                THEN /\ Abort("main")
                     /\ UNCHANGED <<stack, arg_source_token, arg_dest_token>>
                ELSE /\ stack' = <<Frame(<<>>, <<>>)>>
                     /\ arg_source_token' = source_token
                     /\ arg_dest_token' = dest_token
                     /\ pc' = "walk"
                     /\ UNCHANGED <<outcome, raised_in, scratch, cur>>
    /\ UNCHANGED <<config_vars, progress_file, run, migrated_files,
                   source_token, dest_token, issued, stats, vr,
                   success_logged, loaded, resumed, dl_calls, ul_calls, xfer,
                   listing>>
    /\ UNCHANGED mkdir
    /\ UNCHANGED skips

\* what follows the return of a migrate_folder call: the caller's loop, or,
\* for the outermost call, main's call of verify_complete_migration with the
\* tokens the object holds at that time
ReturnTo(rest) ==
    /\ stack' = rest
    /\ xfer' = <<>>
    /\ IF rest = <<>>
       THEN /\ pc' = "verify_all"
            /\ arg_source_token' = source_token
            /\ arg_dest_token' = dest_token
       ELSE UNCHANGED <<pc, arg_source_token, arg_dest_token>>

\* migrate_folder, lines 334-338: the exclusion test and the listing
MigrateFolder ==
    /\ pc = "walk"
    /\ stack # <<>>
    /\ ~Top.listed
    /\ IF should_exclude_path(excluded_paths, Top.relative_path)
       THEN /\ ReturnTo(Pop)
            /\ UNCHANGED <<source_token, dest_token, issued, listing>>
       ELSE \E resp \in ResponsesNow(issued) :
               LET r == get_drive_items(arg_source_token, Top.source_path,
                                        resp, TokenFields, excluded_paths,
                                        dst, page_size)
               IN /\ stack' = SetTop([Top EXCEPT !.listed = TRUE,
                                                 !.items = r.items])
                  /\ source_token' = r.tk.source_token
                  /\ dest_token' = r.tk.dest_token
                  /\ issued' = r.tk.issued
                  /\ listing' = <<[path |-> Top.source_path,
                                   token |-> arg_source_token,
                                   r |-> r]>>
                  /\ UNCHANGED <<pc, arg_source_token, arg_dest_token,
                                 xfer>>
    /\ UNCHANGED <<config_vars, disk_vars, run, migrated_files, stats, cur,
                   vr, outcome, success_logged, loaded, resumed, dl_calls,
                   ul_calls, raised_in>>
    /\ UNCHANGED mkdir
    /\ UNCHANGED skips

\* migrate_folder, lines 340-358: one turn of the loop over the listed items.
\* A file child enters _migrate_file (lines 425-437): count it, skip it when
\* it is recorded as migrated, else go on to download it.
WalkItem ==
    /\ pc = "walk"
    /\ stack # <<>>
    /\ Top.listed
    /\ Top.idx <= Len(Top.items)
    /\ LET item      == Top.items[Top.idx]
           item_path == Join(Top.relative_path, item.name)
           advanced  == SetTop([Top EXCEPT !.idx = @ + 1])
       IN IF should_exclude_path(excluded_paths, item_path)
          THEN /\ stack' = advanced
               /\ UNCHANGED <<dst, stats, cur, pc, outcome, raised_in,
                              scratch, skips>>
          ELSE IF item.folder
          THEN \E how \in FolderOutcomes :
                  LET new_source_path   == Join(Top.source_path, item.name)
                      new_relative_path == Join(Top.relative_path, item.name)
                      made == create_folder(dst, new_relative_path, how)
                  IN /\ stats' = [stats EXCEPT !.total_folders = @ + 1]
                     /\ UNCHANGED skips
                     /\ dst' = made.drive
                     /\ IF made.raised
                        THEN /\ Abort("create_folder")
                             /\ stack' = advanced
                        ELSE /\ stack' = Append(advanced,
                                    Frame(new_source_path, new_relative_path))
                             /\ UNCHANGED <<cur, pc, outcome, raised_in,
                                            scratch>>
          ELSE /\ stack' = advanced
               /\ IF already_migrated(migrated_files, item_path)
                  THEN /\ stats' = [stats EXCEPT !.total_files = @ + 1,
                                                 !.migrated_files = @ + 1]
                       /\ skips' = skips + 1
                       /\ UNCHANGED <<cur, pc>>
                  ELSE /\ stats' = [stats EXCEPT !.total_files = @ + 1]
                       /\ UNCHANGED skips
                       /\ cur' = <<[item |-> item, item_path |-> item_path]>>
                       /\ pc' = "download"
               /\ UNCHANGED <<dst, outcome, raised_in, scratch>>
    /\ xfer' = <<>>
    /\ UNCHANGED <<config_vars, progress_file, run, migrated_files,
                   token_vars, vr, success_logged, loaded, resumed, dl_calls,
                   ul_calls, listing>>
    /\ UNCHANGED mkdir

\* migrate_folder: the loop is exhausted, the call returns
WalkReturn ==
    /\ pc = "walk"
    /\ stack # <<>>
    /\ Top.listed
    /\ Top.idx > Len(Top.items)
    /\ ReturnTo(Pop)
    /\ UNCHANGED <<config_vars, disk_vars, run, migrated_files, source_token,
                   dest_token, issued, stats, cur, vr, outcome,
                   success_logged, loaded, resumed, dl_calls, ul_calls,
                   listing, raised_in>>
    /\ UNCHANGED mkdir
    /\ UNCHANGED skips

\* ------------------------------------------------------------ _migrate_file

local_path(item_path) == Join(temp_dir, item_path)

dest_path_of(folder, item_path) == Join(folder, item_path)

\* a request for an item's content or metadata by id finds the item only in
\* the drive the token reaches
Reaches(token, item_id, dstDrive) ==
    /\ item_id[1] = token.role
    /\ IsFile(DriveOf(token, dstDrive), item_id[2])

\* the failed branches of _migrate_file: append to failed_files, save, and
\* the finally clause removes the local file
RecordFailedGoOn(item_path) ==
    /\ migrated_files' = append_failed(migrated_files, item_path)
    /\ progress_file' = <<migrated_files'>>
    /\ scratch' = scratch \ {local_path(item_path)}
    /\ cur' = cur
    /\ pc' = IF pc = "download" THEN "upload" ELSE "walk"

RecordFailedKeepFile(item_path) ==
    /\ migrated_files' = append_failed(migrated_files, item_path)
    /\ progress_file' = <<migrated_files'>>
    /\ scratch' = scratch
    /\ cur' = <<>>
    /\ pc' = "walk"

RecordFailed(item_path) ==
    /\ migrated_files' = append_failed(migrated_files, item_path)
    /\ progress_file' = <<migrated_files'>>
    /\ scratch' = scratch \ {local_path(item_path)}
    /\ cur' = <<>>
    /\ pc' = "walk"

\* download_file, and the else branch of line 441
DownloadFile ==
    /\ pc = "download"
    /\ LET f == cur[1]
       IN \E failures \in 0..MaxFailures :
             LET reach == Reaches(arg_source_token, f.item.id, dst)
                 r == RetryLoop(download_max_retries,
                                IF reach THEN failures
                                ELSE download_max_retries + MaxFailures)
             IN /\ dl_calls' = dl_calls \cup {f.item_path}
                /\ xfer' = <<[op |-> "download", failures |-> failures,
                              reach |-> reach, r |-> r, raised |-> FALSE]>>
                /\ IF r.result = "value"
                   THEN /\ scratch' = scratch \cup {local_path(f.item_path)}
                        /\ pc' = "upload"
                        /\ UNCHANGED <<migrated_files, progress_file, cur>>
                   ELSE RecordFailed(f.item_path)
    /\ UNCHANGED <<config_vars, dst, run, token_vars, stats, stack, vr,
                   outcome, success_logged, loaded, resumed, ul_calls,
                   listing, raised_in>>
    /\ UNCHANGED mkdir
    /\ UNCHANGED skips

\* What the destination reports as the sha1Hash of an uploaded file: the
\* hash of the bytes sent, "bad" when the stored bytes differ, or nothing.
UploadedHashes(item_id) ==
    {SourceDrive.files[item_id[2]], "bad", ""}

\* the server stores an uploaded file, with the folders on its path
Stored(drive, path, sha) ==
    [folders |-> drive.folders \cup Ancestors(path),
     files   |-> (path :> sha) @@ drive.files]

\* upload_file (create_folder of the parent, then the retry loop), and the
\* else branch of line 444
UploadFile ==
    /\ pc = "upload"
    /\ LET f == cur[1]
           dest_path   == dest_path_of(dest_folder, f.item_path)
           folder_path == Dirname(dest_path)
       IN \E how \in FolderOutcomes, failures \in 0..MaxFailures,
             sha \in UploadedHashes(f.item.id) :
             LET made == IF folder_path # <<>>
                         THEN create_folder(dst, folder_path, how)
                         ELSE [drive |-> dst, raised |-> FALSE]
                 r == RetryLoop(upload_max_retries, failures)
             IN /\ folder_path = <<>> => how = "ok"
                /\ ul_calls' = ul_calls \cup {f.item_path}
                /\ IF made.raised
                   THEN /\ Abort("upload")
                        /\ dst' = made.drive
                        /\ xfer' = <<[op |-> "upload", failures |-> 0,
                                      reach |-> TRUE,
                                      r |-> [result |-> "raised",
                                             attempts |-> 0,
                                             sleeps |-> <<>>],
                                      raised |-> TRUE]>>
                        /\ UNCHANGED <<migrated_files, progress_file>>
                        /\ failures = 0 /\ sha = ""
                   ELSE /\ xfer' = <<[op |-> "upload", failures |-> failures,
                                      reach |-> TRUE, r |-> r,
                                      raised |-> FALSE]>>
                        /\ IF r.result = "value"
                           THEN /\ dst' = Stored(made.drive, dest_path, sha)
                                /\ pc' = "verify"
                                /\ UNCHANGED <<migrated_files, progress_file,
                                               scratch, cur, outcome,
                                               raised_in>>
                           ELSE /\ dst' = made.drive
                                /\ sha = ""
                                /\ RecordFailed(f.item_path)
                                /\ UNCHANGED <<outcome, raised_in>>
    /\ UNCHANGED <<config_vars, run, token_vars, stats, stack, vr,
                   success_logged, loaded, resumed, dl_calls, listing>>
    /\ UNCHANGED mkdir
    /\ UNCHANGED skips

\* get_file_hash: the item's sha1Hash, '' when the answer carries none (the
\* item has no sha1Hash, or the answer is an error body)
get_file_hash(token, item_id, answer, dstDrive) ==
    IF answer = "200" /\ Reaches(token, item_id, dstDrive)
    THEN DriveOf(token, dstDrive).files[item_id[2]]
    ELSE ""

\* the destination's answer to GET root:{dest_path}: status and sha1Hash
DestStatus(token, path, answer, dstDrive) ==
    IF answer # "200" THEN "err"
    ELSE IF ItemExists(DriveOf(token, dstDrive), path) THEN "200"
    ELSE "404"

DestHash(token, path, dstDrive) ==
    IF IsFile(DriveOf(token, dstDrive), path)
    THEN DriveOf(token, dstDrive).files[path]
    ELSE ""

\* verify_file_migration, lines 287-291
verify_decision(source_hash, status, dest_hash) ==
    IF status = "200" THEN source_hash = dest_hash ELSE FALSE

\* what the two requests of verify_file_migration meet: each is answered
\* with a 200, answered with an error, or raises a network error
VerifyAnswers ==
    {<<"200", "200">>, <<"200", "err">>, <<"err", "200">>, <<"err", "err">>,
     <<"exc", "200">>, <<"200", "exc">>}

verify_file_migration(src_token, dst_token, item, dest_path, answers, dstDrive) ==
    LET source_hash == get_file_hash(src_token, item.id, answers[1], dstDrive)
        status      == DestStatus(dst_token, dest_path, answers[2], dstDrive)
        dest_hash   == DestHash(dst_token, dest_path, dstDrive)
    IN [raised      |-> "exc" \in {answers[1], answers[2]},
        source_hash |-> source_hash,
        status      |-> status,
        dest_hash   |-> IF status = "200" THEN dest_hash ELSE "",
        verified    |-> verify_decision(source_hash, status, dest_hash)]

\* _migrate_file, lines 446-454 and the finally clause
VerifyFile ==
    /\ pc = "verify"
    /\ LET f == cur[1]
           dest_path == dest_path_of(dest_folder, f.item_path)
       IN \E answers \in VerifyAnswers :
             LET v == verify_file_migration(arg_source_token, arg_dest_token,
                                            f.item, dest_path, answers, dst)
             IN IF v.raised
                THEN /\ Abort("verify")
                     /\ UNCHANGED <<migrated_files, progress_file, stats>>
                ELSE IF v.verified
                THEN /\ migrated_files' =
                            append_migrated(migrated_files, f.item_path)
                     /\ progress_file' = <<migrated_files'>>
                     /\ stats' = [stats EXCEPT !.migrated_files = @ + 1]
                     /\ scratch' = scratch \ {local_path(f.item_path)}
                     /\ cur' = <<>>
                     /\ pc' = "walk"
                     /\ UNCHANGED <<outcome, raised_in>>
                ELSE /\ RecordFailed(f.item_path)
                     /\ UNCHANGED <<stats, outcome, raised_in>>
    /\ UNCHANGED <<config_vars, dst, run, token_vars, stack, vr,
                   success_logged, loaded, resumed, dl_calls, ul_calls, xfer,
                   listing>>
    /\ UNCHANGED mkdir
    /\ UNCHANGED skips

\* ------------------------------------------------- verify_complete_migration

\* a dict keyed by path, in insertion order: a sequence of <<key, value>>
DictKeys(d) == {d[i][1] : i \in 1..Len(d)}

DictSet(d, key, value) ==
    IF key \in DictKeys(d)
    THEN [i \in 1..Len(d) |-> IF d[i][1] = key THEN <<key, value>> ELSE d[i]]
    ELSE Append(d, <<key, value>>)

RECURSIVE DictUpdate(_, _, _)
DictUpdate(d, other, i) ==
    IF i > Len(other) THEN d
    ELSE DictUpdate(DictSet(d, other[i][1], other[i][2]), other, i + 1)

\* What the server answers during one enumeration: every children request
\* gets a 200, except the request for the folder plan.path, which gets
\* plan.resp.
NoFault == [path |-> <<SL>>, resp |-> <<"200">>]

ListPlans(n) ==
    {NoFault} \cup
    {[path |-> p, resp |-> resp] :
        p \in {<<>>, S, X, Join(X, S)},
        resp \in ResponsesNow(n) \ {<<"200">>}}

PlanResponse(plan, path) == IF plan.path = path THEN plan.resp ELSE <<"200">>

\* get_all_items (the closure of verify_complete_migration): acc carries the
\* dict built so far and the token fields get_drive_items may write
RECURSIVE get_all_items(_, _, _, _, _, _, _)
RECURSIVE CollectItems(_, _, _, _, _, _, _, _, _)
get_all_items(token, path, plan, tk, excluded, dstDrive, size) ==
    LET r == get_drive_items(token, path, PlanResponse(plan, path), tk,
                             excluded, dstDrive, size)
    IN CollectItems(token, path, r.items, 1, plan,
                    [items |-> <<>>, tk |-> r.tk, ok |-> r.ok],
                    excluded, dstDrive, size)

CollectItems(token, path, folder_contents, i, plan, acc, excluded, dstDrive, size) ==
    IF i > Len(folder_contents) THEN acc
    ELSE LET item      == folder_contents[i]
             item_path == Join(path, item.name)
         IN IF item.folder
            THEN LET sub == get_all_items(token, item_path, plan, acc.tk,
                                          excluded, dstDrive, size)
                 IN CollectItems(token, path, folder_contents, i + 1, plan,
                       [items |-> DictUpdate(acc.items, sub.items, 1),
                        tk    |-> sub.tk,
                        ok    |-> acc.ok /\ sub.ok],
                       excluded, dstDrive, size)
            ELSE CollectItems(token, path, folder_contents, i + 1, plan,
                       [items |-> DictSet(acc.items, item_path, item),
                        tk    |-> acc.tk,
                        ok    |-> acc.ok],
                       excluded, dstDrive, size)

\* verify_complete_migration, line 378: source_items
VerifyListSource ==
    /\ pc = "verify_all"
    /\ \E plan \in ListPlans(issued) :
          LET got == get_all_items(arg_source_token, <<>>, plan, TokenFields,
                                   excluded_paths, dst, page_size)
          IN /\ plan # NoFault => (plan.path \in {<<>>, S})
             /\ vr' = [NoVerification EXCEPT !.source_items = got.items]
             /\ source_token' = got.tk.source_token
             /\ dest_token' = got.tk.dest_token
             /\ issued' = got.tk.issued
    /\ pc' = "verify_dest"
    /\ UNCHANGED <<config_vars, disk_vars, run, migrated_files,
                   arg_source_token, arg_dest_token, walk_vars, outcome,
                   success_logged, hist_vars>>
    /\ UNCHANGED mkdir
    /\ UNCHANGED skips

\* verify_complete_migration, lines 379-380: dest_items
VerifyListDest ==
    /\ pc = "verify_dest"
    /\ \E plan \in ListPlans(issued) :
          LET got == get_all_items(arg_dest_token, dest_folder, plan,
                                   TokenFields, excluded_paths, dst,
                                   page_size)
          IN /\ plan # NoFault =>
                   (plan.path \in {dest_folder, Join(dest_folder, S)})
             /\ vr' = [vr EXCEPT !.dest_items = got.items]
             /\ source_token' = got.tk.source_token
             /\ dest_token' = got.tk.dest_token
             /\ issued' = got.tk.issued
    /\ pc' = "compare"
    /\ UNCHANGED <<config_vars, disk_vars, run, migrated_files,
                   arg_source_token, arg_dest_token, walk_vars, outcome,
                   success_logged, hist_vars>>
    /\ UNCHANGED mkdir
    /\ UNCHANGED skips

\* lines 379 and 391
dest_base(folder) == IF folder # <<>> THEN folder \o <<SL>> ELSE <<>>

\* lines 392-397: the class the loop gives one source path
DropMismatched(in_dest_items, verified) ==
    IF ~in_dest_items THEN "missing"
    ELSE IF ~verified THEN "dropped"
    ELSE "verified"

classify(in_dest_items, verified) ==
    IF ~in_dest_items THEN "missing"
    ELSE IF ~verified THEN "mismatched"
    ELSE "verified"

\* verify_complete_migration, lines 390-397: one turn of the compare loop
VerifyCompare ==
    /\ pc = "compare"
    /\ vr.idx <= Len(vr.source_items)
    /\ LET source_path == vr.source_items[vr.idx][1]
           source_item == vr.source_items[vr.idx][2]
           dest_path   == dest_base(dest_folder) \o source_path
           present     == dest_path \in DictKeys(vr.dest_items)
       IN \E answers \in VerifyAnswers :
             LET v == verify_file_migration(arg_source_token, arg_dest_token,
                                            source_item, dest_path, answers,
                                            dst)
                 class == classify(present, v.verified)
             IN /\ ~present => answers = <<"200", "200">>
                /\ IF present /\ v.raised
                   THEN /\ Abort("verify_all")
                        /\ UNCHANGED vr
                   ELSE /\ vr' = [vr EXCEPT
                             !.idx = @ + 1,
                             !.verified_files =
                                 IF class = "verified" THEN @ + 1 ELSE @,
                             !.missing_files =
                                 IF class = "missing"
                                 THEN Append(@, source_path) ELSE @,
                             !.mismatched_files =
                                 IF class = "mismatched"
                                 THEN Append(@, source_path) ELSE @,
                             !.last = <<
                                 [path |-> source_path, class |-> class,
                                  present |-> present,
                                  source_hash |-> IF present
                                                  THEN v.source_hash ELSE "",
                                  status |-> IF present THEN v.status
                                             ELSE "",
                                  dest_hash |-> IF present THEN v.dest_hash
                                                ELSE ""]>>]
                        /\ UNCHANGED <<pc, outcome, raised_in, scratch, cur>>
    /\ UNCHANGED <<config_vars, dst, progress_file, run, migrated_files,
                   token_vars, stats, stack, success_logged, loaded, resumed,
                   dl_calls, ul_calls, xfer, listing>>
    /\ UNCHANGED mkdir
    /\ UNCHANGED skips

\* verify_complete_migration, lines 399-421, and main, lines 498-511: the
\* report is written, the result returned, main logs its last message and
\* purges temp_downloads
VerifyReport ==
    /\ pc = "compare"
    /\ vr.idx > Len(vr.source_items)
    /\ vr' = [vr EXCEPT !.result =
                 <<vr.verified_files = Len(vr.source_items)>>]
    /\ success_logged' = TRUE
    /\ outcome' = "ok"
    /\ pc' = "finished"
    /\ scratch' = {}
    /\ UNCHANGED <<config_vars, dst, progress_file, run, migrated_files,
                   token_vars, walk_vars, hist_vars>>
    /\ UNCHANGED mkdir
    /\ UNCHANGED skips

\* --------------------------------------------------------- the environment

\* the memory of a process that has not run yet, or runs no more
Blank ==
    /\ source_token' = Token("source", 0)
    /\ dest_token' = Token("destination", 0)
    /\ arg_source_token' = Token("source", 0)
    /\ arg_dest_token' = Token("destination", 0)
    /\ issued' = 0
    /\ stats' = ZeroStats
    /\ stack' = <<>>
    /\ cur' = <<>>
    /\ vr' = NoVerification
    /\ outcome' = ""
    /\ success_logged' = FALSE
    /\ dl_calls' = {}
    /\ ul_calls' = {}
    /\ xfer' = <<>>
    /\ listing' = <<>>
    /\ raised_in' = ""
    /\ skips' = 0

\* the process is killed (no handler runs; memory is lost, disk stays)
Kill ==
    /\ pc \notin {"finished", "killed"}
    /\ pc' = "killed"
    /\ migrated_files' = EmptyProgress
    /\ Blank
    /\ UNCHANGED <<config_vars, disk_vars, run, loaded, resumed>>
    /\ UNCHANGED mkdir

\* the program is started again: __init__ loads the progress file, and
\* authenticate_accounts acquires both tokens
Restart ==
    /\ pc \in {"finished", "killed"}
    /\ run < MaxRuns
    /\ run' = run + 1
    /\ resumed' = pc
    /\ migrated_files' = load_progress(progress_file)
    /\ loaded' = FileContent(progress_file)
    /\ Blank
    /\ pc' = "main"
    /\ UNCHANGED <<config_vars, disk_vars>>
    /\ UNCHANGED mkdir

Next ==
    \/ MainStart
    \/ MigrateFolder
    \/ WalkItem
    \/ WalkReturn
    \/ DownloadFile
    \/ UploadFile
    \/ VerifyFile
    \/ VerifyListSource
    \/ VerifyListDest
    \/ VerifyCompare
    \/ VerifyReport
    \/ Kill
    \/ Restart

Spec == Init /\ [][Next]_vars

\* ------------------------------------------------------------- properties

\* the elements a run has appended to a list of the progress state
AppendedSince(list, old) == {list[i] : i \in (Len(old) + 1)..Len(list)}

NewMigrated ==
    AppendedSince(migrated_files.migrated_files, loaded.migrated_files)

NewFailed ==
    AppendedSince(migrated_files.failed_files, loaded.failed_files)

\* how often a path occurs in a list
Occurrences(list, p) == Cardinality({i \in 1..Len(list) : list[i] = p})

\* p is the prefix e or lies in the subtree under it
UnderPrefix(p, e) == p = e \/ StartsWith(p, e \o <<SL>>)

UnderExclusion(p) ==
    \E i \in 1..Len(excluded_paths) : UnderPrefix(p, excluded_paths[i])

\* the files a walk of the source finds when every request is answered
WalkableFiles ==
    DictKeys(get_all_items(Token("source", 0), <<>>, NoFault,
                           [source_token |-> Token("source", 0),
                            dest_token |-> Token("destination", 0),
                            issued |-> 0],
                           excluded_paths, dst, page_size).items)

\* the previous run recorded every file of the walk as migrated
AllRecorded ==
    /\ loaded.migrated_files # <<>>
    /\ WalkableFiles # {}
    /\ WalkableFiles \subseteq Range(loaded.migrated_files)

\* the run has transferred nothing and the migrated list is as it was loaded
C1_Unchanged ==
    /\ dl_calls = {}
    /\ ul_calls = {}
    /\ migrated_files.migrated_files = loaded.migrated_files
    /\ FileContent(progress_file).migrated_files = loaded.migrated_files

\* C1: idempotence of migrate_folder. In a run that starts from a progress
\* file in which every file of the source walk is recorded as migrated, no
\* download_file and no upload_file call is made and the migrated list stays
\* as it was loaded.
C1_Idempotent == pc = "killed" \/ C1_Unchanged \/ ~AllRecorded

\* a second run, after a run that finished, has walked the whole source and
\* skipped both of its files
C1_Witness ==
    /\ run = 2
    /\ resumed = "finished"
    /\ AllRecorded
    /\ pc = "finished"
    /\ outcome = "ok"
    /\ stats.total_files = 2
    /\ stats.migrated_files = 2

\* C2: crash recovery. Outside a step of _migrate_file the progress file
\* holds what the process holds in memory (every mutation is saved at once),
\* and a run never calls download_file or upload_file for a path that the
\* progress file recorded as migrated when the run started.
C2_CrashRecovery ==
    /\ pc # "killed" => FileContent(progress_file) = migrated_files
    /\ \A p \in dl_calls \cup ul_calls : p \notin Range(loaded.migrated_files)

\* the process was killed after d was migrated and before s/n; the restarted
\* run transferred s/n only
C2_Witness ==
    /\ run = 2
    /\ resumed = "killed"
    /\ loaded.migrated_files = <<D>>
    /\ pc = "finished"
    /\ dl_calls = {Join(S, N)}
    /\ ul_calls = {Join(S, N)}
    /\ migrated_files.migrated_files = <<D, Join(S, N)>>

\* C3: exclusion safety. No path under a configured exclusion prefix is
\* appended to migrated_files or failed_files, none is downloaded or
\* uploaded, and no folder under an exclusion prefix is listed by the walk.
C3_ExclusionSafe ==
    /\ \A p \in dl_calls \cup ul_calls \cup NewMigrated \cup NewFailed :
          ~UnderExclusion(p)
    /\ \A i \in 1..Len(stack) :
          stack[i].listed => ~UnderExclusion(stack[i].relative_path)
    /\ listing # <<>> => ~UnderExclusion(listing[1].path)
    /\ cur # <<>> => ~UnderExclusion(cur[1].item_path)

\* with folder s excluded, the run migrated d, passed by s and finished
C3_Witness ==
    /\ excluded_paths = <<S>>
    /\ page_size = 2
    /\ pc = "finished"
    /\ outcome = "ok"
    /\ NewMigrated = {D}
    /\ stats.total_folders = 0

\* the sleeps of a retry loop double from 1 second on
Doubling(sleeps) == \A i \in 1..Len(sleeps) : sleeps[i] = Pow2(i - 1)

\* C4: retry bound. A download_file or upload_file call makes at most 3
\* attempts; when the request fails on every attempt it makes exactly 3 and
\* returns the failure value; it sleeps 1 s, 2 s, ... between attempts only
\* (one sleep less than attempts), and never leaves the loop without a
\* return.
C4_RetryBound ==
    xfer # <<>> /\ ~xfer[1].raised =>
        LET c == xfer[1]
            bound == IF c.op = "download" THEN download_max_retries
                     ELSE upload_max_retries
        IN /\ bound = 3
           /\ c.r.attempts <= bound
           /\ c.r.result \in {"value", "failure"}
           /\ (c.failures >= bound \/ ~c.reach) =>
                 /\ c.r.result = "failure"
                 /\ c.r.attempts = bound
                 /\ c.r.sleeps = <<1, 2>>
           /\ (c.failures < bound /\ c.reach) =>
                 /\ c.r.result = "value"
                 /\ c.r.attempts = c.failures + 1
           /\ Len(c.r.sleeps) = c.r.attempts - 1
           /\ Doubling(c.r.sleeps)

\* an upload whose request would fail more than 3 times gave up after 3
C4_Witness ==
    /\ xfer # <<>>
    /\ xfer[1].op = "upload"
    /\ xfer[1].failures = MaxFailures
    /\ xfer[1].r.result = "failure"
    /\ xfer[1].r.attempts = 3
    /\ cur = <<>>
    /\ NewFailed # {}

\* C5: pagination completeness. A listing that succeeds returns every
\* child of the folder that is not excluded, from all pages, in server order.
C5_PaginationComplete ==
    listing # <<>> /\ listing[1].r.ok =>
        listing[1].r.items =
            SelectSeq(listing[1].r.children,
                      LAMBDA item : ~should_exclude_path(excluded_paths,
                                        Join(listing[1].path, item.name)))

\* C6: soundness of migrated_files. A path appended to migrated_files was
\* downloaded and uploaded and the destination holds, at dest_folder/path, a
\* file whose sha1 hash is the source file's sha1 hash; and
\* verify_complete_migration classifies every such path as verified.
C6_MigratedSound ==
    /\ \A p \in NewMigrated :
          /\ p \in dl_calls
          /\ p \in ul_calls
          /\ IsFile(SourceDrive, p)
          /\ IsFile(dst, dest_path_of(dest_folder, p))
          /\ dst.files[dest_path_of(dest_folder, p)] = SourceDrive.files[p]
    /\ (vr.last # <<>> /\ vr.last[1].path \in NewMigrated) =>
          vr.last[1].class = "verified"
    /\ (pc = "finished" /\ outcome = "ok") =>
          NewMigrated \subseteq DictKeys(vr.source_items)

\* C7: folder mirroring. Nothing is created at the destination outside the
\* subtree of dest_folder; when the walk is inside source folder r the
\* destination folder dest_folder/r exists; every migrated file r/f is at
\* dest_folder/r/f.
C7_Mirroring ==
    /\ \A p \in dst.folders \cup DOMAIN dst.files :
          dest_folder # <<>> => UnderPrefix(p, dest_folder)
    /\ \A i \in 2..Len(stack) :
          Join(dest_folder, stack[i].relative_path) \in dst.folders
    /\ \A p \in NewMigrated : IsFile(dst, Join(dest_folder, p))

\* C8 as stated: after a run that completes normally no path is in both
\* migrated_files and failed_files.
C8_Disjoint ==
    (pc = "finished" /\ outcome = "ok") =>
        Range(migrated_files.migrated_files)
            \cap Range(migrated_files.failed_files) = {}

\* C8 as amended: a path is in both lists only if the progress file the run
\* started from already had it in failed_files; what one run appends to
\* migrated_files and to failed_files is disjoint, and no path recorded as
\* migrated is appended to failed_files.
C8_DisjointUnlessStale ==
    /\ Range(migrated_files.migrated_files)
          \cap Range(migrated_files.failed_files)
          \subseteq Range(loaded.failed_files)
    /\ NewMigrated \cap NewFailed = {}
    /\ Range(loaded.migrated_files) \cap NewFailed = {}

\* a run that started from a progress file listing d as failed migrated d
\* and completed normally
C8_Witness ==
    /\ run = 2
    /\ pc = "finished"
    /\ outcome = "ok"
    /\ D \in Range(loaded.failed_files)
    /\ D \in NewMigrated
    /\ Join(S, N) \in NewFailed

\* C9: per-file failure isolation. Once _migrate_file has returned for a
\* file that was not skipped, the file has been appended exactly once to
\* exactly one of migrated_files and failed_files and the progress file has
\* been written; a failure while downloading, uploading or verifying does
\* not end the run.
C9_Isolation ==
    /\ pc \notin {"download", "upload", "verify", "killed"} =>
          \A p \in dl_calls :
             Occurrences(migrated_files.migrated_files, p)
               - Occurrences(loaded.migrated_files, p)
               + Occurrences(migrated_files.failed_files, p)
               - Occurrences(loaded.failed_files, p) = 1
    /\ pc # "killed" => FileContent(progress_file) = migrated_files
    /\ raised_in \notin {"upload", "verify"}

\* the class C10 gives a source path from what the verifier saw
SpecifiedClass(o) ==
    IF ~o.present THEN "missing"
    ELSE IF \/ o.status # "200"
            \/ o.source_hash = ""
            \/ o.dest_hash = ""
            \/ o.source_hash # o.dest_hash
    THEN "mismatched"
    ELSE "verified"

\* C10: verifier classification. A source path is missing when the
\* destination has no item at dest_folder/path, else mismatched when the
\* hashes differ or either hash is unavailable (both included), else verified.
C10_Classification ==
    vr.last # <<>> => vr.last[1].class = SpecifiedClass(vr.last[1])

\* what the verifier has counted so far
Classified ==
    vr.verified_files + Len(vr.missing_files) + Len(vr.mismatched_files)

\* C11: verifier result. While the compare loop runs every source path seen
\* so far is counted in exactly one of verified, missing, mismatched; when
\* verify_complete_migration returns, verified + |missing| + |mismatched| is
\* the number of source files enumerated, the result is true iff verified
\* equals that number, and iff both itemized lists are empty.
C11_VerifierResult ==
    /\ pc = "compare" => Classified = vr.idx - 1
    /\ Range(vr.missing_files) \cap Range(vr.mismatched_files) = {}
    /\ \A p \in Range(vr.missing_files) \cup Range(vr.mismatched_files) :
          /\ p \in DictKeys(vr.source_items)
          /\ Occurrences(vr.missing_files, p)
               + Occurrences(vr.mismatched_files, p) = 1
    /\ vr.result # <<>> =>
          /\ Classified = Len(vr.source_items)
          /\ vr.result[1] = (vr.verified_files = Len(vr.source_items))
          /\ vr.result[1] =
                (vr.missing_files = <<>> /\ vr.mismatched_files = <<>>)

\* the verifier returned false for two source files, one verified and one
\* mismatched
C11_Witness ==
    /\ vr.result = <<FALSE>>
    /\ Len(vr.source_items) = 2
    /\ vr.verified_files = 1
    /\ Len(vr.mismatched_files) = 1
    /\ vr.missing_files = <<>>

\* C12: verifier coverage. When verify_complete_migration returns, the source
\* files it enumerated are all files of the source tree, and every source
\* file without a counterpart under dest_folder is listed as missing.
C12_Coverage ==
    vr.result # <<>> =>
        /\ DictKeys(vr.source_items) = DOMAIN SourceDrive.files
        /\ \A p \in DOMAIN SourceDrive.files :
              ~IsFile(dst, Join(dest_folder, p)) =>
                  p \in Range(vr.missing_files)

\* C14: listing failures surface. A listing that failed is not taken by
\* migrate_folder for a folder without children: after it, the walk is not
\* going on over an empty list with no error raised.
C14_ListingSurfaces ==
    (listing # <<>> /\ ~listing[1].r.ok) =>
        ~(/\ pc = "walk"
          /\ stack # <<>>
          /\ Top.listed
          /\ Top.items = <<>>
          /\ raised_in = "")

\* the paths of the source tree
SourcePaths == SourceDrive.folders \cup DOMAIN SourceDrive.files

\* C15: exclusion predicate. should_exclude_path(p) is true iff the stripped
\* p equals a configured prefix or lies under it (prefix followed by '/').
C15_ExclusionPredicate ==
    \A p \in SourcePaths :
        should_exclude_path(excluded_paths, p) = UnderExclusion(Strip(p))

\* C13: token role separation. Every request of a source listing made by the
\* walk carries a source-role token, and the walk, which lists the source
\* account only, leaves the destination token as authentication set it.
C13_RoleSeparation ==
    /\ listing # <<>> =>
          \A i \in 1..Len(listing[1].r.sent) :
             listing[1].r.sent[i].role = "source"
    /\ pc = "walk" => dest_token = Token("destination", 0)
    /\ source_token.role = "source"
    /\ dest_token.role = "destination"

\* C16: listing token refresh. A listing call sends at most 2 requests; it
\* sends the second one only after a 401, with a token that was issued by
\* exactly one refresh, for the role of the token in use, and that is stored
\* as that role's token.
C16_ListingRefresh ==
    listing # <<>> =>
        LET r == listing[1].r
        IN /\ Len(r.sent) \in {1, 2}
           /\ r.sent[1] = listing[1].token
           /\ Len(r.sent) = 2 =>
                 /\ r.sent[2] = Token(r.sent[1].role, r.tk.issued)
                 /\ r.sent[2] # r.sent[1]
                 /\ IF r.sent[1].role = "source"
                    THEN r.tk.source_token = r.sent[2]
                    ELSE r.tk.dest_token = r.sent[2]

\* the part of C16 that does not depend on the role: at most 2 requests, the
\* second with the one token the call had issued
ListingRequestBound ==
    listing # <<>> =>
        LET r == listing[1].r
        IN /\ Len(r.sent) \in {1, 2}
           /\ Len(r.sent) = 2 =>
                 /\ r.sent[2].gen = r.tk.issued
                 /\ r.sent[2] \in {r.tk.source_token, r.tk.dest_token}

\* the path of the file _migrate_file is working on, as a set
InFlight == {cur[i].item_path : i \in 1..Len(cur)}

\* C17: stage ordering. A file is in a stage iff _migrate_file is working on
\* it; it is uploaded only after its download returned success and verified
\* only after its upload returned success; every other file downloaded in
\* this run has reached its terminal outcome (or an exception has ended the
\* run), so at most one file is in a non-terminal stage.
C17_StageOrder ==
    /\ (pc \in {"download", "upload", "verify"}) = (cur # <<>>)
    /\ Len(cur) <= 1
    /\ ul_calls \subseteq dl_calls
    /\ pc = "upload" =>
          /\ InFlight \subseteq dl_calls
          /\ xfer # <<>>
          /\ xfer[1].op = "download"
          /\ xfer[1].r.result = "value"
    /\ pc = "verify" =>
          /\ InFlight \subseteq ul_calls
          /\ xfer # <<>>
          /\ xfer[1].op = "upload"
          /\ xfer[1].r.result = "value"
    /\ \A p \in dl_calls \ InFlight :
          p \in NewMigrated \cup NewFailed \/ raised_in # ""

\* s/n is being verified after d, the file before it, reached DONE
C17_Witness ==
    /\ pc = "verify"
    /\ InFlight = {Join(S, N)}
    /\ D \in NewMigrated
    /\ dl_calls = {D, Join(S, N)}
    /\ ul_calls = {D, Join(S, N)}

\* the scratch files of the files _migrate_file is working on
OwnScratch == {local_path(p) : p \in InFlight}

\* C18 as stated: once _migrate_file has returned or raised for a file its
\* scratch file is gone; between two files of the walk temp_downloads holds
\* no file; at most one scratch file exists at any time.
C18_ScratchClean ==
    /\ \A p \in dl_calls \ InFlight : local_path(p) \notin scratch
    /\ (pc = "walk" /\ stats.total_files > 0) => scratch = {}
    /\ pc # "killed" => Cardinality(scratch) <= 1

\* C18 as amended: once _migrate_file has returned or raised for a file its
\* scratch file is gone; in a process that did not follow a killed one,
\* temp_downloads holds at most the scratch file of the file in flight, so
\* none between two files.
C18_ScratchCleanOwn ==
    /\ \A p \in dl_calls \ InFlight : local_path(p) \notin scratch
    /\ (resumed # "killed" /\ pc # "killed") =>
          /\ scratch \subseteq OwnScratch
          /\ Cardinality(scratch) <= 1

\* the upload of d failed after its download had written the scratch file;
\* the walk goes on with an empty temp_downloads
C18_Witness ==
    /\ resumed # "killed"
    /\ pc = "walk"
    /\ xfer # <<>>
    /\ xfer[1].op = "upload"
    /\ xfer[1].r.result = "failure"
    /\ D \in ul_calls
    /\ D \in NewFailed
    /\ scratch = {}

\* the walk is about to visit a file child that is not excluded
VisitsFile ==
    /\ pc = "walk"
    /\ stack # <<>>
    /\ Top.listed
    /\ Top.idx <= Len(Top.items)
    /\ ~Top.items[Top.idx].folder
    /\ ~should_exclude_path(excluded_paths,
                            Join(Top.relative_path, Top.items[Top.idx].name))

VisitedPath == Join(Top.relative_path, Top.items[Top.idx].name)

\* the visit of a file by _migrate_file, lines 425-431
SkipOrAttempt ==
    (VisitsFile /\ pc' # "killed") =>
        /\ stats'.total_files = stats.total_files + 1
        /\ IF VisitedPath \in Range(migrated_files.migrated_files)
           THEN /\ pc' = "walk"
                /\ cur' = <<>>
                /\ stats'.migrated_files = stats.migrated_files + 1
                /\ dl_calls' = dl_calls
                /\ migrated_files' = migrated_files
           ELSE /\ pc' = "download"
                /\ Len(cur') = 1
                /\ cur'[1].item_path = VisitedPath
                /\ stats'.migrated_files = stats.migrated_files

\* a file that was not skipped is downloaded next
AttemptDownloads ==
    (pc = "download" /\ pc' # "killed") =>
        dl_calls' = dl_calls \cup InFlight

\* C19: skip gating. _migrate_file skips a file iff its path is in the
\* migrated list when it is visited; a skipped file adds 1 to the files seen
\* and to the migrated files; any other file, one that is only in the failed
\* list included, is attempted: download_file is called for it.
C19_SkipGating == [][SkipOrAttempt /\ AttemptDownloads]_vars

\* the run started with s/n recorded as migrated and d as failed: it has
\* downloaded d again and skipped s/n
C19_Witness ==
    /\ run = 2
    /\ loaded.migrated_files = <<Join(S, N)>>
    /\ loaded.failed_files = <<D>>
    /\ dl_calls = {D}
    /\ stats.total_files = 2
    /\ stats.migrated_files = 1
    /\ migrated_files.migrated_files = <<Join(S, N)>>
    /\ pc = "walk"

\* ------------------------------------------------- create_folder on its own

\* The path arguments create_folder is given: well-formed paths of 1 to 3
\* segments, the empty string, and paths with slashes around and doubled.
FolderArgs ==
    {<<>>, S, X, Join(X, S), Join(Join(X, S), N),
     <<SL>> \o Join(X, S) \o <<SL>>,
     X \o <<SL, SL>> \o S}

\* The destination drives create_folder starts from.
FolderDrives ==
    {[folders |-> F, files |-> << >>] :
        F \in {{}, {S}, {X}, {X, S}, {X, Join(X, S)}}}

FolderInit ==
    /\ excluded_paths = <<>>
    /\ dest_folder = <<>>
    /\ page_size = 1
    /\ dst \in FolderDrives
    /\ progress_file = <<>>
    /\ scratch = {}
    /\ run = 1
    /\ resumed = ""
    /\ Constructed(<<>>)

\* create_folder(dest_token, path), as main (line 490), migrate_folder (line
\* 353) and upload_file (line 260) call it, with every request answered
CreateFolderCall ==
    /\ \E path \in FolderArgs, faulty \in SUBSET (1..MaxSegments) :
          LET prefixes == Prefixes(path)
              done     == create_folder_loop(dst, prefixes, 1, faulty)
          IN /\ faulty \subseteq 1..Len(prefixes)
             /\ dst' = done.drive
             /\ mkdir' = <<[path     |-> path,
                            before   |-> dst,
                            faulty   |-> faulty,
                            requests |-> done.requests]>>
    /\ UNCHANGED <<config_vars, progress_file, scratch, token_vars,
                   walk_vars, hist_vars, pc, run, migrated_files, vr,
                   outcome, success_logged>>
    /\ UNCHANGED skips

FolderNext == CreateFolderCall

FolderSpec == FolderInit /\ [][FolderNext]_vars

\* the folders created by the requests before request number j
CreatedBefore(requests, j) ==
    {requests[k].path : k \in {i \in 1..(j - 1) : requests[i].method = "PUT"}}

\* what C20 says of one create_folder call m that left the drive `after`
EnsureFolder(m, after) ==
    LET q        == m.requests
        prefixes == Prefixes(m.path)
        checks   == SelectSeq(q, LAMBDA r : r.method = "GET")
    IN \* the prefixes are checked left to right, each the parent of the next
       /\ [i \in 1..Len(checks) |-> checks[i].path] = prefixes
       /\ \A i \in 2..Len(prefixes) : Dirname(prefixes[i]) = prefixes[i - 1]
       \* a create request follows the check of its prefix, answered not-found
       /\ \A j \in 1..Len(q) :
             q[j].method = "PUT" =>
                 /\ j > 1
                 /\ q[j - 1] = [method |-> "GET", path |-> q[j].path,
                                status |-> "404"]
       \* no child is created before its parent exists
       /\ \A j \in 1..Len(q) :
             q[j].method = "PUT" =>
                 \/ Dirname(q[j].path) = <<>>
                 \/ ItemExists(m.before, Dirname(q[j].path))
                 \/ Dirname(q[j].path) \in CreatedBefore(q, j)
       \* nothing is created when every folder of the path exists
       /\ (\A i \in 1..Len(prefixes) : IsFolder(m.before, prefixes[i])) =>
             /\ \A j \in 1..Len(q) : q[j].method = "GET"
             /\ after = m.before
       \* a second call changes nothing
       /\ create_folder_loop(after, prefixes, 1, m.faulty).drive = after

\* C20: create_folder is idempotent and ordered. A call checks the prefixes
\* of its path left to right, creates a prefix only after its check reported
\* not-found, never creates a child before its parent, creates nothing when
\* all folders exist, and called twice leaves what one call leaves.
C20_EnsureFolder == mkdir # <<>> => EnsureFolder(mkdir[1], dst)

\* the same, for the calls whose existence checks are all answered with
\* found or not-found
EnsureFolderAnswered ==
    (mkdir # <<>> /\ mkdir[1].faulty = {}) => EnsureFolder(mkdir[1], dst)

\* a call for x/s/n on a drive that holds x only has created x/s, then x/s/n
EnsureFolderCreates ==
    /\ mkdir # <<>>
    /\ mkdir[1].path = Join(Join(X, S), N)
    /\ mkdir[1].faulty = {}
    /\ mkdir[1].before.folders = {X}
    /\ Len(mkdir[1].requests) = 5
    /\ dst.folders = {X, Join(X, S), Join(Join(X, S), N)}

\* the number of paths this run has appended to a list of the progress state
AppendedCount(list, old) == Len(list) - Len(old)

\* C21: statistics. stats.migrated_files never exceeds stats.total_files; it
\* is the number of files skipped as already migrated plus the number of
\* paths this run appended to the migrated list; a file appended to the
\* failed list is counted in total_files only.
C21_Statistics ==
    pc # "killed" =>
        /\ stats.migrated_files <= stats.total_files
        /\ stats.migrated_files =
              skips + AppendedCount(migrated_files.migrated_files,
                                    loaded.migrated_files)
        /\ AppendedCount(migrated_files.failed_files, loaded.failed_files)
              <= stats.total_files - stats.migrated_files

\* a run has skipped d, migrated s/n and counts 2 migrated files of 2
C21_Witness ==
    /\ run = 2
    /\ skips = 1
    /\ loaded.migrated_files = <<D>>
    /\ NewMigrated = {Join(S, N)}
    /\ stats.migrated_files = 2
    /\ stats.total_files = 2

\* C22: end-of-run reporting. main has logged 'Migration completed and
\* verified successfully!' only if verify_complete_migration returned true.
C22_SuccessOnlyIfVerified ==
    success_logged => vr.result = <<TRUE>>

====
